---- MODULE Spec2Model ----
(***************************************************************************)
(* Model of the lights HAL of light/Light.cpp: the dispatch table          *)
(* `lights`, the handlers handleBacklight / handleBattery /                *)
(* handleNotification, and the entry points Light::setLight and            *)
(* Light::getSupportedTypes, called from several binder threads.           *)
(*                                                                         *)
(* A sysfs attribute holds text.  Text is a sequence of one-character      *)
(* strings, so that formatting (operator<<, snprintf) and parsing          *)
(* (operator>>) are computed and not assumed.                              *)
(*                                                                         *)
(* A packed 32 bit colour 0xAARRGGBB is the tuple <<AA, RR, GG, BB>> of    *)
(* its bytes; (color >> s) & 0xFF is the selection of one byte.            *)
(***************************************************************************)
EXTENDS Integers, Sequences, FiniteSets, TLC

----------------------------------------------------------------------------
(* Bounds of the model *)

\* setLight calls issued in one behaviour
MaxCalls == 2

\* the threads that may call into the service
Threads == {"T1", "T2"}

NoThread == "none"

----------------------------------------------------------------------------
(* Light.cpp:31-42, the attribute paths *)

LCD_LED == "/sys/class/backlight/panel0-backlight/"
BLUE_LED == "/sys/class/leds/blue_moto/"
CHARGING_LED == "/sys/class/leds/charging/"
GREEN_LED == "/sys/class/leds/green_moto/"
RED_LED == "/sys/class/leds/red_moto/"

BREATH == "breath"
BREATH_PATTERN == "breath_pattern"
BRIGHTNESS == "brightness"
MAX_BRIGHTNESS == "max_brightness"

\* LED MACRO ATTR, the concatenation of two string literals
Path(led, attr) == <<led, attr>>

ChannelLeds == {RED_LED, GREEN_LED, BLUE_LED}

\* every attribute the service writes
WritablePaths ==
    {Path(LCD_LED, BRIGHTNESS)}
        \cup {Path(led, a) : led \in ChannelLeds, a \in {BREATH, BREATH_PATTERN, BRIGHTNESS}}

----------------------------------------------------------------------------
(* Text *)

DigitChar == <<"0", "1", "2", "3", "4", "5", "6", "7", "8", "9">>

RECURSIVE NatToStr(_)
NatToStr(n) ==
    IF n < 10 THEN <<DigitChar[n + 1]>>
    ELSE NatToStr(n \div 10) \o <<DigitChar[(n % 10) + 1]>>

\* decimal text of an int, as operator<<(int) and printf's %d write it
IntToStr(n) == IF n < 0 THEN <<"-">> \o NatToStr(0 - n) ELSE NatToStr(n)

Take(s, n) == IF Len(s) <= n THEN s ELSE SubSeq(s, 1, n)

DigitVal(c) == CHOOSE d \in 0..9 : DigitChar[d + 1] = c

IsDigit(c) == \E d \in 0..9 : DigitChar[d + 1] = c

RECURSIVE DigitsLen(_)
\* length of the longest prefix of s made of digits
DigitsLen(s) ==
    IF s = <<>> \/ ~IsDigit(Head(s)) THEN 0 ELSE 1 + DigitsLen(Tail(s))

RECURSIVE DigitsVal(_, _)
DigitsVal(s, acc) ==
    IF s = <<>> THEN acc ELSE DigitsVal(Tail(s), (10 * acc) + DigitVal(Head(s)))

\* std::ifstream >> int: an optional sign, then at least one digit; anything
\* else (an empty or missing file included) sets failbit
ParseInt(text) ==
    LET neg == text /= <<>> /\ Head(text) = "-"
        body == IF neg THEN Tail(text) ELSE text
        n == DigitsLen(body)
        v == DigitsVal(Take(body, n), 0)
    IN  IF n = 0 THEN [fail |-> TRUE, result |-> 0]
        ELSE [fail |-> FALSE, result |-> IF neg THEN 0 - v ELSE v]

----------------------------------------------------------------------------
(* Light.cpp:44-64, attribute I/O *)

\* set(path, value): the file then holds the text of value.  One write is
\* the pair <<path, text>>.
set(path, text) == <<path, text>>

\* get(path, def) on a file that holds `content`
get(content, def) ==
    LET r == ParseInt(content) IN IF r.fail THEN def ELSE r.result

----------------------------------------------------------------------------
(* Light.cpp:70-78 *)

BufferSize == 40

\* snprintf(buffer, sizeof(buffer), "%d %d %d %d\n", lo, hi, lo, hi): at most
\* sizeof(buffer) - 1 characters are stored.  Both arguments are positive
\* where the function is called, so the uint32_t parameters print as given.
getBreathPatternValue(pauseHi, pauseLo) ==
    Take(IntToStr(pauseLo) \o <<" ">> \o IntToStr(pauseHi) \o <<" ">>
             \o IntToStr(pauseLo) \o <<" ">> \o IntToStr(pauseHi) \o <<"\n">>,
         BufferSize - 1)

----------------------------------------------------------------------------
(* Light.cpp:80-86 *)

kDefaultMaxBrightness == 255

\* (color >> shift) & 0xFF, for shift in {0, 8, 16, 24}
ByteAt(color, shift) == color[4 - (shift \div 8)]

\* fault: the sum divided by 255 where line 85 shifts by 8
rgbToBrightnessDiv255(state) ==
    ((77 * ByteAt(state.color, 16)) + (150 * ByteAt(state.color, 8))
        + (29 * ByteAt(state.color, 0))) \div 255

rgbToBrightness(state) ==
    ((77 * ByteAt(state.color, 16)) + (150 * ByteAt(state.color, 8))
        + (29 * ByteAt(state.color, 0))) \div 256

----------------------------------------------------------------------------
(* Light.cpp:88-98 *)

\* the text written by a set() call that is given no value
NoValue == <<>>

\* maxContent is the text max_brightness holds when line 89 reads it.  Line 97
\* names the attribute and passes no value: the computed brightness reaches
\* the log only, and the write carries nothing.
handleBacklight(state, maxContent) ==
    LET read == get(maxContent, -1)
        maxBrightness == IF read < 0 THEN kDefaultMaxBrightness ELSE read
        sentBrightness == rgbToBrightness(state)
        brightness == (sentBrightness * maxBrightness) \div kDefaultMaxBrightness
    IN  << set(Path(LCD_LED, BRIGHTNESS), NoValue) >>

----------------------------------------------------------------------------
(* Light.cpp:100-111 *)

\* line 101 calls Light::rgbToBrightness: the function of lines 82-86

\* fault: the breath flag inverted
handleBatteryInverted(state) ==
    LET brightness == rgbToBrightness(state)
        breath == IF brightness = 0 THEN 1 ELSE 0
    IN  << set(Path(RED_LED, BREATH), IntToStr(breath)),
           set(Path(RED_LED, BRIGHTNESS), IntToStr(brightness)),
           set(Path(GREEN_LED, BREATH), IntToStr(breath)),
           set(Path(GREEN_LED, BRIGHTNESS), IntToStr(brightness)),
           set(Path(BLUE_LED, BREATH), IntToStr(breath)),
           set(Path(BLUE_LED, BRIGHTNESS), IntToStr(brightness)) >>

handleBattery(state) ==
    LET brightness == rgbToBrightness(state)
        breath == IF brightness = 0 THEN 0 ELSE 1
    IN  << set(Path(RED_LED, BREATH), IntToStr(breath)),
           set(Path(RED_LED, BRIGHTNESS), IntToStr(brightness)),
           set(Path(GREEN_LED, BREATH), IntToStr(breath)),
           set(Path(GREEN_LED, BRIGHTNESS), IntToStr(brightness)),
           set(Path(BLUE_LED, BREATH), IntToStr(breath)),
           set(Path(BLUE_LED, BRIGHTNESS), IntToStr(brightness)) >>

----------------------------------------------------------------------------
(* Light.cpp:113-178 *)

TIMED == "TIMED"

\* fault: the alpha byte ignored
ScaledChannelNoAlpha(state, shift) == ByteAt(state.color, shift)

\* lines 119-132: the channel scaled by the alpha byte unless that is 0xFF
ScaledChannel(state, shift) ==
    LET channel == ByteAt(state.color, shift)
        brightness == ByteAt(state.color, 24)
    IN  IF brightness /= 255 THEN (channel * brightness) \div 255 ELSE channel

\* fault: the reset leaves the blue channel out
DisableBreathingNoBlue ==
    << set(Path(RED_LED, BREATH), IntToStr(0)),
       set(Path(RED_LED, BRIGHTNESS), IntToStr(0)),
       set(Path(GREEN_LED, BREATH), IntToStr(0)),
       set(Path(GREEN_LED, BRIGHTNESS), IntToStr(0)) >>

\* lines 134-140
DisableBreathing ==
    << set(Path(RED_LED, BREATH), IntToStr(0)),
       set(Path(RED_LED, BRIGHTNESS), IntToStr(0)),
       set(Path(GREEN_LED, BREATH), IntToStr(0)),
       set(Path(GREEN_LED, BRIGHTNESS), IntToStr(0)),
       set(Path(BLUE_LED, BREATH), IntToStr(0)),
       set(Path(BLUE_LED, BRIGHTNESS), IntToStr(0)) >>

\* fault: the brightness of a breathing channel left at the 0 of the reset
BreatheWritesNoBrightness(pauseHi, pauseLo) ==
    << set(Path(RED_LED, BREATH_PATTERN), getBreathPatternValue(pauseHi, pauseLo)),
       set(Path(RED_LED, BREATH), IntToStr(1)),
       set(Path(GREEN_LED, BREATH_PATTERN), getBreathPatternValue(pauseHi, pauseLo)),
       set(Path(GREEN_LED, BREATH), IntToStr(1)),
       set(Path(BLUE_LED, BREATH_PATTERN), getBreathPatternValue(pauseHi, pauseLo)),
       set(Path(BLUE_LED, BREATH), IntToStr(1)) >>

\* lines 154-164
BreatheWrites(pauseHi, pauseLo) ==
    << set(Path(RED_LED, BREATH_PATTERN), getBreathPatternValue(pauseHi, pauseLo)),
       set(Path(RED_LED, BREATH), IntToStr(1)),
       set(Path(RED_LED, BRIGHTNESS), IntToStr(kDefaultMaxBrightness)),
       set(Path(GREEN_LED, BREATH_PATTERN), getBreathPatternValue(pauseHi, pauseLo)),
       set(Path(GREEN_LED, BREATH), IntToStr(1)),
       set(Path(GREEN_LED, BRIGHTNESS), IntToStr(kDefaultMaxBrightness)),
       set(Path(BLUE_LED, BREATH_PATTERN), getBreathPatternValue(pauseHi, pauseLo)),
       set(Path(BLUE_LED, BREATH), IntToStr(1)),
       set(Path(BLUE_LED, BRIGHTNESS), IntToStr(kDefaultMaxBrightness)) >>

\* lines 168-176
SolidWrites(lit) ==
    LET level == IF lit THEN kDefaultMaxBrightness ELSE 0
    IN  << set(Path(RED_LED, BRIGHTNESS), IntToStr(level)),
           set(Path(GREEN_LED, BRIGHTNESS), IntToStr(level)),
           set(Path(BLUE_LED, BRIGHTNESS), IntToStr(level)) >>

\* fault: the else of line 167 missing, so the steady writes follow the timed
NotificationBranchFallThrough(state) ==
    LET lit == ScaledChannel(state, 16) > 0 \/ ScaledChannel(state, 8) > 0
                   \/ ScaledChannel(state, 0) > 0
        breathe == state.flashMode = TIMED /\ state.flashOnMs > 0 /\ state.flashOffMs > 0
                       /\ lit
    IN  (IF breathe THEN BreatheWrites(state.flashOnMs, state.flashOffMs) ELSE << >>)
            \o SolidWrites(lit)

\* lines 142-177
NotificationBranch(state) ==
    LET redBrightness == ScaledChannel(state, 16)
        greenBrightness == ScaledChannel(state, 8)
        blueBrightness == ScaledChannel(state, 0)
        lit == redBrightness > 0 \/ greenBrightness > 0 \/ blueBrightness > 0
        pauseHi == state.flashOnMs
        pauseLo == state.flashOffMs
        breath == IF pauseHi > 0 /\ pauseLo > 0 THEN 1 ELSE 0
    IN  IF state.flashMode = TIMED
        THEN IF breath /= 0 /\ lit THEN BreatheWrites(pauseHi, pauseLo) ELSE << >>
        ELSE SolidWrites(lit)

\* fault: the reset of lines 134-140 left out
handleNotificationNoReset(state) == NotificationBranch(state)

handleNotification(state) == DisableBreathing \o NotificationBranch(state)

----------------------------------------------------------------------------
(* The HIDL types of the interface: Type, Flash, Status, LightState *)

BACKLIGHT == "BACKLIGHT"
KEYBOARD == "KEYBOARD"
BUTTONS == "BUTTONS"
BATTERY == "BATTERY"
NOTIFICATIONS == "NOTIFICATIONS"
ATTENTION == "ATTENTION"
BLUETOOTH == "BLUETOOTH"
WIFI == "WIFI"

\* the enumerators of Type in the order of their values, the order of the
\* keys of a std::map<Type, ...>
TypeOrder == <<BACKLIGHT, KEYBOARD, BUTTONS, BATTERY, NOTIFICATIONS, ATTENTION, BLUETOOTH, WIFI>>

Types == {TypeOrder[i] : i \in DOMAIN TypeOrder}

NONE == "NONE"
HARDWARE == "HARDWARE"

SUCCESS == "SUCCESS"
LIGHT_NOT_SUPPORTED == "LIGHT_NOT_SUPPORTED"

\* the status of a call that has not returned
Pending == "PENDING"

LightState(color, flashMode, flashOnMs, flashOffMs) ==
    [color |-> color, flashMode |-> flashMode, flashOnMs |-> flashOnMs,
     flashOffMs |-> flashOffMs]

----------------------------------------------------------------------------
(* The inputs the model draws from *)

\* a duration whose pattern text does not fit the buffer of line 73
LongMs == 100000000

\* colours: black; white with alpha 0 (luma 255, every scaled channel 0);
\* red with alpha 0x80 (luma 76, scaled red 128); white with alpha 0xFF
Black == <<255, 0, 0, 0>>
ClearWhite == <<0, 255, 255, 255>>
HalfRed == <<128, 255, 0, 0>>
White == <<255, 255, 255, 255>>

\* the handlers of lines 88-111 read the colour only
SteadyStates ==
    { LightState(Black, NONE, 0, 0),
      LightState(ClearWhite, NONE, 0, 0),
      LightState(HalfRed, HARDWARE, 500, 500) }

TimedStates ==
    { LightState(White, TIMED, 500, 500),
      LightState(HalfRed, TIMED, 1000, 250),
      LightState(White, TIMED, LongMs, LongMs),
      LightState(White, TIMED, 0, 500),
      LightState(HalfRed, TIMED, 500, -1),
      LightState(ClearWhite, TIMED, 500, 500) }

LightStates == SteadyStates \cup TimedStates

\* the calls setLight(type, state) the model issues
Requests ==
    ({BACKLIGHT, BATTERY} \X SteadyStates)
        \cup ({NOTIFICATIONS, ATTENTION} \X LightStates)
        \cup ({KEYBOARD, BUTTONS, BLUETOOTH, WIFI} \X {LightState(White, TIMED, 500, 500)})

\* the calls the model issues when several threads call at once
ConcurrentRequests ==
    { <<BACKLIGHT, LightState(HalfRed, HARDWARE, 500, 500)>>,
      <<BATTERY, LightState(HalfRed, HARDWARE, 500, 500)>>,
      <<BATTERY, LightState(Black, NONE, 0, 0)>>,
      <<NOTIFICATIONS, LightState(White, TIMED, 500, 500)>>,
      <<ATTENTION, LightState(ClearWhite, NONE, 0, 0)>>,
      <<KEYBOARD, LightState(White, TIMED, 500, 500)>> }

RequestsOf(threads) == IF Cardinality(threads) > 1 THEN ConcurrentRequests ELSE Requests

\* what max_brightness may hold when it is read: nothing (or no such file),
\* a negative number, a number below 255
MaxBrightnessContents == { <<>>, <<"-", "1">>, <<"1", "2", "8">> }

----------------------------------------------------------------------------
(* Light.cpp:180-185 *)

\* fault: the table built without its last entry
lightsNoAttention ==
    (BACKLIGHT :> "handleBacklight") @@ (BATTERY :> "handleBattery")
        @@ (NOTIFICATIONS :> "handleNotification")

lights ==
    (BACKLIGHT :> "handleBacklight") @@ (BATTERY :> "handleBattery")
        @@ (NOTIFICATIONS :> "handleNotification") @@ (ATTENTION :> "handleNotification")

----------------------------------------------------------------------------
(* State *)

VARIABLES
    pool,         \* the threads of the process that serve calls
    globalLock,   \* the thread that holds globalLock (line 199), or NoThread
    attrs,        \* the text each written attribute holds
    writer,       \* attribute -> the call (index of calls) that wrote it last, 0 if none
    lastWrite,    \* the call that made the most recent attribute write, 0 if none
    pc,           \* thread -> "idle", "lock" (blocked at line 199) or "handler" (line 201)
    cur,          \* thread -> its latest setLight call (index of calls), 0 if none
    calls,        \* the setLight calls in the order they were issued
    order,        \* the calls in the order their handlers were invoked
    cbTypes,      \* the vector last passed to _hidl_cb (line 211)
    probe         \* a LightState and what rgbToBrightness makes of it

vars == <<pool, globalLock, attrs, writer, lastWrite, pc, cur, calls, order, cbTypes, probe>>

\* the vector _hidl_cb has not been given yet
NoTypes == << >>

Start ==
    /\ globalLock = NoThread
    /\ attrs = [p \in WritablePaths |-> IF p[2] = BREATH_PATTERN THEN << >> ELSE <<"0">>]
    /\ writer = [p \in WritablePaths |-> 0]
    /\ lastWrite = 0
    /\ pc = [t \in Threads |-> "idle"]
    /\ cur = [t \in Threads |-> 0]
    /\ calls = << >>
    /\ order = << >>
    /\ cbTypes = NoTypes

\* a LightState that rgbToBrightness has not been given
Unconverted(state) == [state |-> state, computed |-> FALSE, brightness |-> 0]

NoProbe == Unconverted(LightState(<<0, 0, 0, 0>>, NONE, 0, 0))

\* calls arrive on two threads
Init == pool = Threads /\ Start /\ probe = NoProbe

\* calls arrive on one thread, one after the other
InitOneThread == pool = {"T1"} /\ Start /\ probe = NoProbe

----------------------------------------------------------------------------
(* Light.cpp:189-204, Light::setLight *)

\* lines 189-194: the call is issued and the table searched.  A type that is
\* not in the table returns at line 193.
SetLight(t, type, state) ==
    /\ pc[t] = "idle"
    /\ Len(calls) < MaxCalls
    /\ LET found == type \in DOMAIN lights
       IN  /\ calls' = Append(calls, [type |-> type, state |-> state, reads |-> << >>,
                                      done |-> << >>, todo |-> << >>,
                                      ret |-> IF found THEN Pending ELSE LIGHT_NOT_SUPPORTED])
           /\ pc' = [pc EXCEPT ![t] = IF found THEN "lock" ELSE "idle"]
    /\ cur' = [cur EXCEPT ![t] = Len(calls) + 1]
    /\ UNCHANGED <<pool, globalLock, attrs, writer, lastWrite, order, cbTypes, probe>>

\* fault: a write is skipped when the attribute already holds the text
RunHandlerSkipUnchanged(handler, state, maxContent) ==
    SelectSeq(CASE handler = "handleBacklight" -> handleBacklight(state, maxContent)
                [] handler = "handleBattery" -> handleBattery(state)
                [] handler = "handleNotification" -> handleNotification(state),
              LAMBDA w : attrs[w[1]] /= w[2])

\* it->second(state), line 201
RunHandler(handler, state, maxContent) ==
    CASE handler = "handleBacklight" -> handleBacklight(state, maxContent)
      [] handler = "handleBattery" -> handleBattery(state)
      [] handler = "handleNotification" -> handleNotification(state)

\* fault: every handler reads max_brightness
HandlerReadsAlways(handler) == << Path(LCD_LED, MAX_BRIGHTNESS) >>

\* the attributes a handler reads: line 89 is the only get()
HandlerReads(handler) ==
    IF handler = "handleBacklight" THEN << Path(LCD_LED, MAX_BRIGHTNESS) >> ELSE << >>

\* the results the reads of a handler may have: a sequence of <<path, content>>
ReadResults(paths) ==
    IF paths = << >> THEN { << >> }
    ELSE { << <<paths[1], c>> >> : c \in MaxBrightnessContents }

\* fault: setLight without the lock_guard
MutexNeverTaken == TRUE

\* line 199: std::lock_guard blocks until no thread holds globalLock
MutexAvailable == globalLock = NoThread

\* lines 199-201: the lock is taken and the handler entered; the handler
\* reads what it reads (line 89) and computes what it is going to write.
Lock(t) ==
    /\ pc[t] = "lock"
    /\ MutexAvailable
    /\ globalLock' = t
    /\ LET c == calls[cur[t]]
           handler == lights[c.type]
       IN  \E reads \in ReadResults(HandlerReads(handler)) :
               calls' = [calls EXCEPT ![cur[t]].reads = reads,
                                      ![cur[t]].todo =
                                          RunHandler(handler, c.state,
                                                     IF reads = << >> THEN << >> ELSE reads[1][2])]
    /\ pc' = [pc EXCEPT ![t] = "handler"]
    /\ order' = Append(order, cur[t])
    /\ UNCHANGED <<pool, attrs, writer, lastWrite, cur, cbTypes, probe>>

\* one set() of the handler: the attribute then holds the text written
Write(t) ==
    /\ pc[t] = "handler"
    /\ calls[cur[t]].todo /= << >>
    /\ LET w == Head(calls[cur[t]].todo)
       IN  /\ attrs' = [attrs EXCEPT ![w[1]] = w[2]]
           /\ writer' = [writer EXCEPT ![w[1]] = cur[t]]
           /\ calls' = [calls EXCEPT ![cur[t]].done = Append(@, w),
                                     ![cur[t]].todo = Tail(@)]
    /\ lastWrite' = cur[t]
    /\ UNCHANGED <<pool, globalLock, pc, cur, order, cbTypes, probe>>

\* fault: the lock taken with lock() and not released on return
ReturnKeepsLock(t) ==
    /\ pc[t] = "handler"
    /\ calls[cur[t]].todo = << >>
    /\ calls' = [calls EXCEPT ![cur[t]].ret = SUCCESS]
    /\ pc' = [pc EXCEPT ![t] = "idle"]
    /\ UNCHANGED <<pool, globalLock, attrs, writer, lastWrite, cur, order, cbTypes, probe>>

\* line 203: the handler has returned; the lock_guard releases the lock
Return(t) ==
    /\ pc[t] = "handler"
    /\ calls[cur[t]].todo = << >>
    /\ globalLock' = NoThread
    /\ calls' = [calls EXCEPT ![cur[t]].ret = SUCCESS]
    /\ pc' = [pc EXCEPT ![t] = "idle"]
    /\ UNCHANGED <<pool, attrs, writer, lastWrite, cur, order, cbTypes, probe>>

----------------------------------------------------------------------------
(* Light.cpp:206-214, Light::getSupportedTypes *)

\* fault: getSupportedTypes made to wait for globalLock
GetSupportedTypesLocked(t) ==
    /\ pc[t] = "idle"
    /\ globalLock = NoThread
    /\ cbTypes' = SelectSeq(TypeOrder, LAMBDA k : k \in DOMAIN lights)
    /\ UNCHANGED <<pool, globalLock, attrs, writer, lastWrite, pc, cur, calls, order, probe>>

\* fault: the loop of line 209 starts at the second entry
KeysInOrderFromSecond(table) ==
    Tail(SelectSeq(TypeOrder, LAMBDA k : k \in DOMAIN table))

\* the keys of a table in the order of iteration of the std::map
KeysInOrder(table) ==
    SelectSeq(TypeOrder, LAMBDA k : k \in DOMAIN table)

GetSupportedTypes(t) ==
    /\ pc[t] = "idle"
    /\ cbTypes' = KeysInOrder(lights)
    /\ UNCHANGED <<pool, globalLock, attrs, writer, lastWrite, pc, cur, calls, order, probe>>

----------------------------------------------------------------------------

Next ==
    \/ \E t \in pool, r \in RequestsOf(pool) : SetLight(t, r[1], r[2])
    \/ \E t \in pool : Lock(t)
    \/ \E t \in pool : Write(t)
    \/ \E t \in pool : Return(t)
    \/ \E t \in pool : GetSupportedTypes(t)

Spec == Init /\ [][Next]_vars

SpecOneThread == InitOneThread /\ [][Next]_vars

\* Fair scheduling: a thread that can make its next write or return does so,
\* and a thread that blocks in lock() gets the lock if it is free again and
\* again (the lock is taken and released by the other threads in between, so
\* Lock(t) is enabled only off and on and the condition on it is the strong
\* one).
Fairness ==
    \A t \in Threads : SF_vars(Lock(t)) /\ WF_vars(Write(t)) /\ WF_vars(Return(t))

SpecFair == Init /\ [][Next]_vars /\ Fairness

----------------------------------------------------------------------------
(* Light.cpp:82-86, rgbToBrightness on its own *)

\* the bytes a colour is put together from
ProbeAlphas == {0, 128, 255}
ProbeBytes == {0, 1, 128, 255}

ProbeColours == ProbeAlphas \X ProbeBytes \X ProbeBytes \X ProbeBytes

\* no call is served; a LightState waits to be converted
InitLuma ==
    /\ pool = {} /\ Start
    /\ \E color \in ProbeColours : probe = Unconverted(LightState(color, NONE, 0, 0))

Convert ==
    /\ ~probe.computed
    /\ probe' = [probe EXCEPT !.computed = TRUE,
                              !.brightness = rgbToBrightness(probe.state)]
    /\ UNCHANGED <<pool, globalLock, attrs, writer, lastWrite, pc, cur, calls, order, cbTypes>>

NextLuma == Convert

SpecLuma == InitLuma /\ [][NextLuma]_vars

----------------------------------------------------------------------------
(* Vocabulary of the properties *)

SupportedTypes == {BACKLIGHT, BATTERY, NOTIFICATIONS, ATTENTION}

Range(seq) == {seq[i] : i \in DOMAIN seq}

\* call i has had its handler invoked
Invoked(i) == i \in Range(order)

\* the handler of call i has run to its end
HandlerOver(i) == Invoked(i) /\ calls[i].todo = << >>

\* call i has returned to its caller
Returned(i) == calls[i].ret /= Pending

\* the attributes a call has written
Written(c) == {w[1] : w \in Range(c.done)}

----------------------------------------------------------------------------
(* C1 *)

\* C1: for every LightState, a setLight call that has returned has returned
\* SUCCESS if its type is Backlight, Battery, Notifications or Attention and
\* LIGHT_NOT_SUPPORTED if it is any other type; a call on any other type
\* writes no attribute and reads none.
C1_StatusByType ==
    \A i \in DOMAIN calls :
        LET c == calls[i]
        IN  /\ Returned(i) =>
                   c.ret = IF c.type \in SupportedTypes THEN SUCCESS ELSE LIGHT_NOT_SUPPORTED
            /\ c.type \notin SupportedTypes =>
                   /\ Returned(i)
                   /\ c.done = << >> /\ c.todo = << >> /\ c.reads = << >>
                   /\ ~Invoked(i)
                   /\ \A p \in WritablePaths : writer[p] /= i

\* a call on a type outside the table has returned LIGHT_NOT_SUPPORTED and a
\* call on a type of the table has returned SUCCESS
C1_Witness ==
    /\ \E i \in DOMAIN calls : calls[i].type \in SupportedTypes /\ calls[i].ret = SUCCESS
    /\ \E i \in DOMAIN calls :
           calls[i].type \in {KEYBOARD, BUTTONS, BLUETOOTH, WIFI}
               /\ calls[i].ret = LIGHT_NOT_SUPPORTED

----------------------------------------------------------------------------
(* C2 *)

\* the writes call i makes, in program order: those made, then those to come
ProgramOrder(i) == calls[i].done \o calls[i].todo

\* C2: the attribute writes of two setLight calls never interleave.  At most
\* one thread is inside a handler; a call that has made some of its writes
\* and not all of them is the one that made the most recent write of all;
\* and each call makes its writes in the order of its handler.
C2_WritesNeverInterleave ==
    /\ Cardinality({t \in pool : pc[t] = "handler"}) <= 1
    /\ \A i \in DOMAIN calls :
           /\ (calls[i].done /= << >> /\ calls[i].todo /= << >>) => lastWrite = i
           /\ Invoked(i) =>
                  ProgramOrder(i) =
                      RunHandler(lights[calls[i].type], calls[i].state,
                                 IF calls[i].reads = << >> THEN << >> ELSE calls[i].reads[1][2])

\* one call is in the middle of its writes while a call of the other thread,
\* on another type, waits for the lock
C2_Witness ==
    \E t, u \in pool :
        /\ t /= u
        /\ pc[t] = "handler" /\ pc[u] = "lock"
        /\ calls[cur[t]].done /= << >> /\ calls[cur[t]].todo /= << >>
        /\ calls[cur[t]].type /= calls[cur[u]].type

----------------------------------------------------------------------------
(* C3 *)

\* C3: whatever calls came before, the vector getSupportedTypes passes to its
\* callback holds Backlight, Battery, Notifications and Attention, each once,
\* and nothing else.
C3_SupportedTypes ==
    cbTypes /= NoTypes =>
        /\ Range(cbTypes) = {BACKLIGHT, BATTERY, NOTIFICATIONS, ATTENTION}
        /\ Len(cbTypes) = 4

\* getSupportedTypes has answered after a setLight that ran a handler and a
\* setLight that was refused
C3_Witness ==
    /\ cbTypes /= NoTypes
    /\ \E i \in DOMAIN calls : calls[i].ret = SUCCESS
    /\ \E i \in DOMAIN calls : calls[i].ret = LIGHT_NOT_SUPPORTED

----------------------------------------------------------------------------
(* Vocabulary of the handlers' properties, written from the specification *)

\* luma of a packed colour <<AA, RR, GG, BB>>
Luma(color) == ((77 * color[2]) + (150 * color[3]) + (29 * color[4])) \div 256

\* channel k (2 red, 3 green, 4 blue) scaled by alpha
Scaled(color, k) == IF color[1] = 255 THEN color[k] ELSE (color[k] * color[1]) \div 255

AnyScaledNonzero(color) == \E k \in 2..4 : Scaled(color, k) > 0

IsNotification(c) == c.type \in {NOTIFICATIONS, ATTENTION}

\* the writes of a call to the attributes of one LED, in order
WritesTo(c, led) == SelectSeq(c.done, LAMBDA w : w[1][1] = led)

HasWritten(c, path) == \E w \in Range(c.done) : w[1] = path

\* the text of the last write of a call to an attribute it has written
LastText(c, path) ==
    LET at == {k \in DOMAIN c.done : c.done[k][1] = path}
    IN  c.done[CHOOSE k \in at : \A j \in at : j <= k][2]

\* call i ran the latest handler and that handler is over: the attributes
\* hold what it left
JustDone(i) == HandlerOver(i) /\ i = order[Len(order)]

----------------------------------------------------------------------------
(* C4 *)

\* the maximum the backlight handler is to scale by: the number max_brightness
\* held, 255 if none could be read or it was negative
DeviceMax(content) ==
    LET r == ParseInt(content)
    IN  IF r.fail \/ r.result < 0 THEN 255 ELSE r.result

\* C4: the Backlight handler writes luma(color) * deviceMax / 255 to the
\* backlight brightness attribute, deviceMax being the value read from
\* max_brightness, or 255 when the read fails or gives a negative value.
C4_BacklightWritesScaled ==
    \A i \in DOMAIN calls :
        (HandlerOver(i) /\ calls[i].type = BACKLIGHT) =>
            LET c == calls[i]
                scaled == (Luma(c.state.color) * DeviceMax(c.reads[1][2])) \div 255
            IN  /\ HasWritten(c, Path(LCD_LED, BRIGHTNESS))
                /\ LastText(c, Path(LCD_LED, BRIGHTNESS)) = IntToStr(scaled)

----------------------------------------------------------------------------
(* C5 *)

\* "<off> <on> <off> <on>\n"
PatternText(flashOnMs, flashOffMs) ==
    IntToStr(flashOffMs) \o <<" ">> \o IntToStr(flashOnMs) \o <<" ">>
        \o IntToStr(flashOffMs) \o <<" ">> \o IntToStr(flashOnMs) \o <<"\n">>

\* C5: after a Notifications or Attention call with flashMode Timed, both
\* durations positive and a scaled channel nonzero, each of red, green and
\* blue has had "<flashOffMs> <flashOnMs> <flashOffMs> <flashOnMs>\n"
\* written to breath_pattern, then breath = 1, then brightness = 255, for
\* every positive pair of durations.
C5_TimedPatternWritten ==
    \A i \in DOMAIN calls :
        LET c == calls[i]
        IN  (/\ HandlerOver(i) /\ IsNotification(c)
             /\ c.state.flashMode = TIMED
             /\ c.state.flashOnMs > 0 /\ c.state.flashOffMs > 0
             /\ AnyScaledNonzero(c.state.color)) =>
                \A led \in ChannelLeds :
                    LET ws == WritesTo(c, led)
                    IN  /\ Len(ws) >= 3
                        /\ SubSeq(ws, Len(ws) - 2, Len(ws)) =
                               << <<Path(led, BREATH_PATTERN),
                                    PatternText(c.state.flashOnMs, c.state.flashOffMs)>>,
                                  <<Path(led, BREATH), <<"1">> >>,
                                  <<Path(led, BRIGHTNESS), <<"2", "5", "5">> >> >>

----------------------------------------------------------------------------
(* C6 *)

\* C6: after a Notifications or Attention call whose flashMode is not Timed,
\* red, green and blue end with breath = 0 and with brightness = 255 if a
\* scaled channel is nonzero, brightness = 0 if none is; past the six writes
\* of the reset the call writes no breath attribute.
C6_SteadyNotification ==
    \A i \in DOMAIN calls :
        LET c == calls[i]
            level == IF AnyScaledNonzero(c.state.color) THEN <<"2", "5", "5">> ELSE <<"0">>
        IN  (HandlerOver(i) /\ IsNotification(c) /\ c.state.flashMode /= TIMED) =>
                /\ \A led \in ChannelLeds :
                       /\ HasWritten(c, Path(led, BREATH))
                       /\ HasWritten(c, Path(led, BRIGHTNESS))
                       /\ LastText(c, Path(led, BREATH)) = <<"0">>
                       /\ LastText(c, Path(led, BRIGHTNESS)) = level
                       /\ JustDone(i) =>
                              /\ attrs[Path(led, BREATH)] = <<"0">>
                              /\ attrs[Path(led, BRIGHTNESS)] = level
                /\ \A k \in DOMAIN c.done : k > 6 => c.done[k][1][2] /= BREATH

\* a steady call with alpha below 0xFF has lit the three channels, and the
\* steady call after it, whose scaled channels are all 0, has put them out
C6_Witness ==
    /\ Len(calls) = 2
    /\ HandlerOver(1) /\ IsNotification(calls[1]) /\ calls[1].state.flashMode = HARDWARE
    /\ calls[1].state.color = HalfRed
    /\ LastText(calls[1], Path(BLUE_LED, BRIGHTNESS)) = <<"2", "5", "5">>
    /\ JustDone(2) /\ IsNotification(calls[2]) /\ calls[2].state.flashMode = NONE
    /\ calls[2].state.color = ClearWhite
    /\ attrs[Path(BLUE_LED, BRIGHTNESS)] = <<"0">>

----------------------------------------------------------------------------
(* C7 *)

\* C7: the Battery handler writes to each of red, green and blue breath = 0
\* and brightness = 0 when luma(color) = 0, breath = 1 and brightness =
\* luma(color) when luma(color) > 0: the same two values to the three.
C7_Battery ==
    \A i \in DOMAIN calls :
        LET c == calls[i]
            luma == Luma(c.state.color)
        IN  (HandlerOver(i) /\ c.type = BATTERY) =>
                \A led \in ChannelLeds :
                    /\ WritesTo(c, led) =
                           << <<Path(led, BREATH), IF luma = 0 THEN <<"0">> ELSE <<"1">> >>,
                              <<Path(led, BRIGHTNESS), IntToStr(luma)>> >>
                    /\ JustDone(i) =>
                           /\ attrs[Path(led, BREATH)] = IF luma = 0 THEN <<"0">> ELSE <<"1">>
                           /\ attrs[Path(led, BRIGHTNESS)] = IntToStr(luma)

\* a Battery call of luma 76 has set the channels breathing at 76, and the
\* Battery call of luma 0 after it has put them out
C7_Witness ==
    /\ Len(calls) = 2
    /\ HandlerOver(1) /\ calls[1].type = BATTERY /\ Luma(calls[1].state.color) = 76
    /\ LastText(calls[1], Path(GREEN_LED, BREATH)) = <<"1">>
    /\ LastText(calls[1], Path(GREEN_LED, BRIGHTNESS)) = <<"7", "6">>
    /\ JustDone(2) /\ calls[2].type = BATTERY /\ Luma(calls[2].state.color) = 0
    /\ attrs[Path(GREEN_LED, BREATH)] = <<"0">>
    /\ attrs[Path(GREEN_LED, BRIGHTNESS)] = <<"0">>

----------------------------------------------------------------------------
(* C8 *)

\* C8: a channel enters Breathing (breath = 1) only by a call that also writes
\* the channel's breath pattern and sets its brightness to 255: whenever the
\* breath attribute of a channel holds 1 and the call that wrote it is over,
\* that call wrote the channel's breath_pattern and left its brightness 255.
C8_BreathingOnlyWithPattern ==
    \A led \in ChannelLeds :
        LET w == writer[Path(led, BREATH)]
        IN  (attrs[Path(led, BREATH)] = <<"1">> /\ w /= 0 /\ HandlerOver(w)) =>
                /\ HasWritten(calls[w], Path(led, BREATH_PATTERN))
                /\ LastText(calls[w], Path(led, BRIGHTNESS)) = <<"2", "5", "5">>
                /\ attrs[Path(led, BRIGHTNESS)] = <<"2", "5", "5">>

\* C8, amended: whenever the breath attribute of a channel holds 1 and the
\* call that wrote it is over, that call was either a Notifications or
\* Attention call that wrote the channel's breath_pattern and left its
\* brightness 255, or a Battery call of luma(color) > 0 that wrote no
\* breath_pattern and left the channel's brightness luma(color).
C8_BreathingByCall ==
    \A led \in ChannelLeds :
        LET w == writer[Path(led, BREATH)]
        IN  (attrs[Path(led, BREATH)] = <<"1">> /\ w /= 0 /\ HandlerOver(w)) =>
                LET c == calls[w]
                    luma == Luma(c.state.color)
                IN  \/ /\ IsNotification(c)
                       /\ HasWritten(c, Path(led, BREATH_PATTERN))
                       /\ LastText(c, Path(led, BRIGHTNESS)) = <<"2", "5", "5">>
                       /\ attrs[Path(led, BRIGHTNESS)] = <<"2", "5", "5">>
                    \/ /\ c.type = BATTERY
                       /\ luma > 0
                       /\ ~HasWritten(c, Path(led, BREATH_PATTERN))
                       /\ LastText(c, Path(led, BRIGHTNESS)) = IntToStr(luma)
                       /\ attrs[Path(led, BRIGHTNESS)] = IntToStr(luma)

\* a timed call has set red breathing with its pattern at 255, and the
\* Battery call after it has set red breathing at luma 76 over the pattern
\* the first call left
C8_Witness ==
    /\ Len(calls) = 2
    /\ HandlerOver(1) /\ IsNotification(calls[1])
    /\ HasWritten(calls[1], Path(RED_LED, BREATH_PATTERN))
    /\ LastText(calls[1], Path(RED_LED, BREATH)) = <<"1">>
    /\ LastText(calls[1], Path(RED_LED, BRIGHTNESS)) = <<"2", "5", "5">>
    /\ JustDone(2) /\ calls[2].type = BATTERY
    /\ writer[Path(RED_LED, BREATH)] = 2
    /\ writer[Path(RED_LED, BREATH_PATTERN)] = 1
    /\ attrs[Path(RED_LED, BREATH)] = <<"1">>
    /\ attrs[Path(RED_LED, BRIGHTNESS)] = <<"7", "6">>

----------------------------------------------------------------------------
(* C9 *)

----------------------------------------------------------------------------
(* C10 *)

\* C10: every setLight call writes to between 0 and 7 device attributes.
C10_AtMostSevenAttributes ==
    \A i \in DOMAIN calls : Cardinality(Written(calls[i])) <= 7

\* C10, amended: every setLight call writes to between 0 and 9 device
\* attributes, in at most 15 writes.
C10_AtMostNineAttributes ==
    \A i \in DOMAIN calls :
        /\ Cardinality(Written(calls[i])) <= 9
        /\ Len(calls[i].done) <= 15

\* a refused call has written nothing and a breathing notification has
\* written the nine attributes of the three channels in fifteen writes
C10_Witness ==
    /\ \E i \in DOMAIN calls : Returned(i) /\ calls[i].done = << >>
    /\ \E i \in DOMAIN calls :
           /\ HandlerOver(i)
           /\ Cardinality(Written(calls[i])) = 9
           /\ Len(calls[i].done) = 15

----------------------------------------------------------------------------
(* C11 *)

\* the lock is held by a thread that is inside its handler, or by none
LockHeldInHandlerOnly ==
    /\ (\A t \in pool : pc[t] /= "handler") => globalLock = NoThread
    /\ \A t \in pool : globalLock = t => pc[t] = "handler"

\* C11: the lock is released on every way out of setLight: whenever no
\* handler is running the lock is free, and with every thread scheduled
\* fairly a setLight call that waits for the lock gets it, runs its handler
\* and returns SUCCESS.
C11_LockReleased ==
    /\ []LockHeldInHandlerOnly
    /\ \A t \in Threads :
           (pc[t] = "lock") ~>
               (pc[t] = "idle" /\ cur[t] /= 0 /\ calls[cur[t]].ret = SUCCESS)

\* both threads have called setLight on a type of the table, both calls have
\* returned SUCCESS and the lock is free
C11_Witness ==
    /\ \A t \in pool : pc[t] = "idle" /\ cur[t] /= 0 /\ calls[cur[t]].ret = SUCCESS
    /\ Cardinality(pool) = 2
    /\ Len(order) = 2
    /\ globalLock = NoThread

----------------------------------------------------------------------------
(* C12 *)

\* C12: setLight on a type outside the table and getSupportedTypes neither
\* take nor wait for the lock.  A thread at the lock or in a handler serves
\* a call on a type of the table; and in every state, the lock held by
\* another thread or not, an idle thread can run getSupportedTypes to its
\* end and (while calls remain to be issued) a refused setLight to its end.
C12_NoLockForRefusedAndTypes ==
    \A t \in pool :
        /\ pc[t] /= "idle" => calls[cur[t]].type \in SupportedTypes
        /\ pc[t] = "idle" => ENABLED GetSupportedTypes(t)
        /\ (pc[t] = "idle" /\ Len(calls) < MaxCalls) =>
               \E r \in RequestsOf(pool) :
                   r[1] \notin SupportedTypes /\ ENABLED SetLight(t, r[1], r[2])

\* a thread is in the middle of its handler, holding the lock; the other
\* thread's setLight, issued later, has been refused, and getSupportedTypes
\* has answered
C12_Witness ==
    \E t, u \in pool :
        /\ globalLock = u /\ pc[u] = "handler"
        /\ calls[cur[u]].done /= << >> /\ calls[cur[u]].todo /= << >>
        /\ pc[t] = "idle" /\ cur[t] > cur[u]
        /\ calls[cur[t]].ret = LIGHT_NOT_SUPPORTED
        /\ cbTypes /= NoTypes

----------------------------------------------------------------------------
(* C13 *)

\* C13: for every packed colour 0xAARRGGBB, luma(color) is
\* (77*R + 150*G + 29*B) >> 8: it does not depend on the alpha byte and lies
\* in 0..255; 0x00FFFFFF gives 255 and 0x00FF0000 gives 76.
C13_Luma ==
    probe.computed =>
        LET color == probe.state.color
            R == color[2]
            G == color[3]
            B == color[4]
        IN  /\ probe.brightness * 256 <= (77 * R) + (150 * G) + (29 * B)
            /\ (77 * R) + (150 * G) + (29 * B) < (probe.brightness + 1) * 256
            /\ probe.brightness \in 0..255
            /\ color = <<0, 255, 255, 255>> => probe.brightness = 255
            /\ color = <<0, 255, 0, 0>> => probe.brightness = 76

\* 0xFFFFFFFF has been converted to 255, the alpha byte set and the largest
\* sum of the three products
C13_Witness ==
    /\ probe.computed
    /\ probe.state.color = <<255, 255, 255, 255>>
    /\ probe.brightness = 255

----------------------------------------------------------------------------
(* C14 *)

RgbTypes == {BATTERY, NOTIFICATIONS, ATTENTION}

ChannelAttrs == {BREATH, BRIGHTNESS}

\* what a call on the channels asks of each of them: breath and brightness
ChannelsAsked(type, state) ==
    IF type = BATTERY
    THEN [breath |-> IF Luma(state.color) > 0 THEN 1 ELSE 0,
          brightness |-> Luma(state.color)]
    ELSE IF state.flashMode = TIMED
         THEN IF state.flashOnMs > 0 /\ state.flashOffMs > 0 /\ AnyScaledNonzero(state.color)
              THEN [breath |-> 1, brightness |-> kDefaultMaxBrightness]
              ELSE [breath |-> 0, brightness |-> 0]
         ELSE [breath |-> 0,
               brightness |-> IF AnyScaledNonzero(state.color)
                              THEN kDefaultMaxBrightness ELSE 0]

\* C14: after a completed Battery, Notifications or Attention call the breath
\* and the brightness of red, green and blue depend on the type and the
\* LightState of that call alone: each of the six attributes was last written
\* by that call, holds what the call asks whatever the calls before it left,
\* and holds what any other completed call of the same type and LightState
\* left, with another history behind it.
C14_ChannelsSetByLastCall ==
    \A i \in DOMAIN calls :
        LET c == calls[i]
            asked == ChannelsAsked(c.type, c.state)
        IN  (JustDone(i) /\ c.type \in RgbTypes) =>
                \A led \in ChannelLeds :
                    /\ writer[Path(led, BREATH)] = i
                    /\ writer[Path(led, BRIGHTNESS)] = i
                    /\ attrs[Path(led, BREATH)] = IntToStr(asked.breath)
                    /\ attrs[Path(led, BRIGHTNESS)] = IntToStr(asked.brightness)
                    /\ \A j \in DOMAIN calls :
                           (HandlerOver(j) /\ calls[j].type = c.type
                                /\ calls[j].state = c.state) =>
                               \A a \in ChannelAttrs :
                                   LastText(calls[j], Path(led, a)) = attrs[Path(led, a)]

\* a Timed notification has set the channels breathing at 255, and the
\* Battery call of luma 76 after it leaves them breathing at 76
C14_Witness ==
    /\ Len(calls) = 2
    /\ HandlerOver(1) /\ calls[1].type = NOTIFICATIONS
    /\ LastText(calls[1], Path(BLUE_LED, BRIGHTNESS)) = <<"2", "5", "5">>
    /\ LastText(calls[1], Path(BLUE_LED, BREATH)) = <<"1">>
    /\ JustDone(2) /\ calls[2].type = BATTERY
    /\ \A led \in ChannelLeds :
           /\ attrs[Path(led, BREATH)] = <<"1">>
           /\ attrs[Path(led, BRIGHTNESS)] = <<"7", "6">>

----------------------------------------------------------------------------
(* C15 *)

\* the six writes of a reset: breath = 0 and brightness = 0 for red, green
\* and blue
ResetWrites ==
    { <<Path(led, a), <<"0">> >> : led \in ChannelLeds, a \in ChannelAttrs }

\* a write that sets a channel up: a breath pattern, breath = 1 or a
\* brightness other than 0
IsSetupWrite(w) ==
    \/ w[1][2] = BREATH_PATTERN
    \/ w[1][2] = BREATH /\ w[2] = <<"1">>
    \/ w[1][2] = BRIGHTNESS /\ w[2] /= <<"0">>

\* C15: in every run of the Notifications/Attention handler the first six
\* writes are breath = 0 and brightness = 0 of red, green and blue, whatever
\* the flash mode and the colour, and every breath_pattern, breath = 1 or
\* nonzero brightness write of that run comes after them.
C15_ResetFirst ==
    \A i \in DOMAIN calls :
        LET c == calls[i]
            all == c.done \o c.todo
        IN  (Invoked(i) /\ IsNotification(c)) =>
                /\ Len(all) >= Cardinality(ResetWrites)
                /\ {all[k] : k \in 1..Cardinality(ResetWrites)} = ResetWrites
                /\ \A k \in DOMAIN c.done :
                       IsSetupWrite(c.done[k]) =>
                           k > Cardinality(ResetWrites)

\* a Timed notification is past its reset and has written a breath pattern,
\* a breath = 1 and a brightness of 255, with writes still to make
C15_Witness ==
    \E i \in DOMAIN calls :
        /\ Invoked(i) /\ IsNotification(calls[i])
        /\ calls[i].state.flashMode = TIMED
        /\ calls[i].todo /= << >>
        /\ HasWritten(calls[i], Path(RED_LED, BREATH_PATTERN))
        /\ \E k \in DOMAIN calls[i].done :
               /\ k > Cardinality(ResetWrites)
               /\ calls[i].done[k] = <<Path(RED_LED, BRIGHTNESS), <<"2", "5", "5">> >>

----------------------------------------------------------------------------
(* C16 *)

\* a Timed notification with no on time or no off time
IsTimedWithoutPause(c) ==
    /\ IsNotification(c)
    /\ c.state.flashMode = TIMED
    /\ (c.state.flashOnMs <= 0 \/ c.state.flashOffMs <= 0)

\* C16: a Notifications/Attention call with flashMode Timed and flashOnMs <= 0
\* or flashOffMs <= 0 never enables breathing: at no point of its run has it
\* written a breath_pattern or a breath = 1, nor has it any such write left
\* to make, and when its handler is over the three channels hold breath 0 and
\* brightness 0, whatever the scaled colour.
C16_NoBreathingWithoutPause ==
    \A i \in DOMAIN calls :
        LET c == calls[i]
        IN  (Invoked(i) /\ IsTimedWithoutPause(c)) =>
                /\ \A w \in Range(c.done) \cup Range(c.todo) :
                       /\ w[1][2] /= BREATH_PATTERN
                       /\ w[1][2] = BREATH => w[2] = <<"0">>
                /\ JustDone(i) =>
                       \A led \in ChannelLeds :
                           /\ attrs[Path(led, BREATH)] = <<"0">>
                           /\ attrs[Path(led, BRIGHTNESS)] = <<"0">>

\* a Battery call has left the channels breathing; the Timed notification
\* after it, of a nonzero scaled colour and no on time, leaves them at
\* breath 0 and brightness 0
C16_Witness ==
    /\ Len(calls) = 2
    /\ HandlerOver(1) /\ calls[1].type = BATTERY
    /\ LastText(calls[1], Path(RED_LED, BREATH)) = <<"1">>
    /\ JustDone(2) /\ IsTimedWithoutPause(calls[2])
    /\ calls[2].state.flashOnMs = 0
    /\ AnyScaledNonzero(calls[2].state.color)
    /\ \A led \in ChannelLeds :
           /\ attrs[Path(led, BREATH)] = <<"0">>
           /\ attrs[Path(led, BRIGHTNESS)] = <<"0">>

----------------------------------------------------------------------------
(* C17 *)

\* C17: for every LightState, setLight(Attention, state) and
\* setLight(Notifications, state) make the same sequence of attribute writes
\* and return the same status: any two returned calls, one of each type, with
\* the same LightState have the same status and the same writes.
C17_AttentionAsNotifications ==
    \A i, j \in DOMAIN calls :
        (/\ calls[i].type = NOTIFICATIONS /\ calls[j].type = ATTENTION
         /\ calls[i].state = calls[j].state
         /\ Returned(i) /\ Returned(j)) =>
            /\ calls[i].ret = calls[j].ret
            /\ calls[i].done = calls[j].done

\* a Notifications call and an Attention call of the same Timed LightState
\* have both returned SUCCESS after 15 writes each
C17_Witness ==
    /\ Len(calls) = 2
    /\ calls[1].type = NOTIFICATIONS /\ calls[2].type = ATTENTION
    /\ calls[1].state = calls[2].state
    /\ calls[1].state.flashMode = TIMED
    /\ calls[1].ret = SUCCESS /\ calls[2].ret = SUCCESS
    /\ Len(calls[1].done) > Cardinality(ResetWrites)
    /\ calls[2].done = calls[1].done

----------------------------------------------------------------------------
(* C18 *)

\* no setLight call is in progress
Quiescent == \A t \in pool : pc[t] = "idle"

\* C18: whenever no setLight call is in progress and a Battery, Notifications
\* or Attention call is among the completed ones, red, green and blue hold the
\* same breath and the same brightness, and a breath of 1 goes with a
\* brightness above 0.
C18_ChannelsAgree ==
    (Quiescent /\ \E i \in DOMAIN calls : HandlerOver(i) /\ calls[i].type \in RgbTypes) =>
        /\ \A led \in ChannelLeds :
               /\ attrs[Path(led, BREATH)] = attrs[Path(RED_LED, BREATH)]
               /\ attrs[Path(led, BRIGHTNESS)] = attrs[Path(RED_LED, BRIGHTNESS)]
        /\ \A led \in ChannelLeds :
               attrs[Path(led, BREATH)] = <<"1">> =>
                   LET level == ParseInt(attrs[Path(led, BRIGHTNESS)])
                   IN  ~level.fail /\ level.result > 0

\* two threads have called Battery (luma 76) and a Timed notification at
\* once; both calls have returned, the notification ran last and the three
\* channels breathe at 255
C18_Witness ==
    /\ Quiescent
    /\ Cardinality(pool) = 2
    /\ Len(order) = 2
    /\ calls[order[1]].type = BATTERY /\ Luma(calls[order[1]].state.color) = 76
    /\ calls[order[2]].type = NOTIFICATIONS
    /\ \A led \in ChannelLeds :
           /\ attrs[Path(led, BREATH)] = <<"1">>
           /\ attrs[Path(led, BRIGHTNESS)] = <<"2", "5", "5">>

----------------------------------------------------------------------------
(* C19 *)

AllChannelAttrs == {BREATH, BRIGHTNESS, BREATH_PATTERN}

\* C19: no step of a Backlight call changes the brightness, breath or
\* breath_pattern of red, green or blue; no step of a Battery, Notifications
\* or Attention call changes the brightness of the backlight, and such a call
\* has read no attribute.
C19_Frame ==
    [][\A t \in pool :
           pc[t] = "handler" =>
               LET c == calls[cur[t]]
               IN  /\ c.type = BACKLIGHT =>
                          \A led \in ChannelLeds, a \in AllChannelAttrs :
                              attrs'[Path(led, a)] = attrs[Path(led, a)]
                   /\ c.type \in RgbTypes =>
                          /\ attrs'[Path(LCD_LED, BRIGHTNESS)] = attrs[Path(LCD_LED, BRIGHTNESS)]
                          /\ c.reads = << >>]_vars

\* a Battery call has set the channels breathing at 76 and the Backlight
\* call after it is over: the channels are as the Battery call left them and
\* the Backlight call wrote the brightness of the backlight alone
C19_Witness ==
    /\ Len(calls) = 2
    /\ HandlerOver(1) /\ calls[1].type = BATTERY /\ calls[1].reads = << >>
    /\ JustDone(2) /\ calls[2].type = BACKLIGHT
    /\ Written(calls[2]) = {Path(LCD_LED, BRIGHTNESS)}
    /\ writer[Path(LCD_LED, BRIGHTNESS)] = 2
    /\ \A led \in ChannelLeds :
           /\ writer[Path(led, BRIGHTNESS)] = 1
           /\ attrs[Path(led, BRIGHTNESS)] = <<"7", "6">>
           /\ attrs[Path(led, BREATH)] = <<"1">>

============================================================================
